---------------------------- MODULE Spec2Model ----------------------------
(***************************************************************************)
(* Tic-Tac-Toe in the terminal (src/main.py): the round controller         *)
(* Game.start, Board, Player, and the sqlite store (scores, history).      *)
(*                                                                         *)
(* Text is a sequence of one-character strings, so that str.lower,         *)
(* str.title, str.isdigit and int() are computed character by character.   *)
(* Characters outside ASCII are written by name: "SUP2" is U+00B2          *)
(* SUPERSCRIPT TWO, "AR3" is U+0663 ARABIC-INDIC DIGIT THREE.              *)
(***************************************************************************)
EXTENDS Naturals, Sequences, FiniteSets

VARIABLES
    pc,         \* where the process blocks: "menu", "move", "rematch", "crashed"
    status,     \* how the last round stands: "None", "InProgress", "Won", "Draw", "Aborted"
    board,      \* Board.board: occupied cell -> marker
    players,    \* Game.players: the two Player objects, in turn order
    player,     \* the Player objects: id -> [name, marker, moves, score]
    cur,        \* position of cur_player in the cycle over Game.players
    winner,     \* Game.winner: a Player id, or None
    round_num,  \* Game.round_num
    scores,     \* table scores: rows [name, score] in insertion order
    history,    \* table history: rows [player1, player2, winner, timestamp]
    clock,      \* the reading time.time() gave to the last Game.save, in seconds
    error,      \* exception raised to the caller by the last operation, or "none"
    completed,  \* observer: the rounds that ended Won or Draw, in order
    calls,      \* observer: add_score calls made on each Player object
    base,       \* observer: calls[p] when the row of p's name was last absent
    proc,       \* SpecRace: each process' position inside add_score
    dblock,     \* SpecRace: the process holding sqlite's write lock, or 0
    waited,     \* SpecRace: seconds each process has waited for the write lock
    typed,      \* SpecNames: the two lines typed at the name prompts
    session     \* observer: the rounds the running session has completed

vars == <<pc, status, board, players, player, cur, winner, round_num, scores,
          history, clock, error, completed, calls, base, proc, dblock, waited,
          typed, session>>

(***************************************************************************)
(* Bounds of the model.                                                    *)
(***************************************************************************)
\* A rematch starts only while fewer rounds than this are on record in history.
MaxCompleted == 2
\* A new session (menu entry "Play") starts only while fewer rounds than this
\* are on record in history.
MaxRecorded == 1
\* SpecStore: add_score calls per Player object, and Game.save calls.
MaxCalls == 2
MaxSaves == 2
\* SpecRace: the largest in-memory score and stored count before the race.
MaxPrior == 1

(***************************************************************************)
(* Constants of the program.                                               *)
(***************************************************************************)
\* Seconds a connection waits for sqlite's write lock before its statement
\* raises: sql.connect (line 127) is called without timeout, which is 5.
BusyTimeout == 5

\* Python's None: as Game.winner (no Player object), and as the NULL winner of a
\* history row (a text that no input can spell).
None == 0
Null == <<"NULL">>

(***************************************************************************)
(* Text.                                                                   *)
(***************************************************************************)
LowerLetters == <<"a", "b", "c", "e", "l", "o", "p", "r", "s", "t", "y">>
UpperLetters == <<"A", "B", "C", "E", "L", "O", "P", "R", "S", "T", "Y">>
AsciiDigits == <<"0", "1", "2", "3", "4", "5", "6", "7", "8", "9">>

IndexIn(seq, c) == CHOOSE i \in 1..Len(seq) : seq[i] = c
InSeq(seq, c) == \E i \in 1..Len(seq) : seq[i] = c

IsUpperChar(c) == InSeq(UpperLetters, c)
IsLowerChar(c) == InSeq(LowerLetters, c)
IsCased(c) == IsUpperChar(c) \/ IsLowerChar(c)
LowerChar(c) == IF IsUpperChar(c) THEN LowerLetters[IndexIn(UpperLetters, c)] ELSE c
UpperChar(c) == IF IsLowerChar(c) THEN UpperLetters[IndexIn(LowerLetters, c)] ELSE c

\* str.lower()
Lower(s) == [i \in 1..Len(s) |-> LowerChar(s[i])]

\* str.title(): a cased character is upper-cased when it starts a word (it
\* follows no cased character) and lower-cased otherwise.
Title(s) ==
    [i \in 1..Len(s) |->
        IF i > 1 /\ IsCased(s[i - 1]) THEN LowerChar(s[i]) ELSE UpperChar(s[i])]

\* Characters for which str.isdigit() is true: the decimal digits of any
\* script, and digit-like characters such as superscripts.
IsDecimalChar(c) == InSeq(AsciiDigits, c) \/ c = "AR3"
IsDigitChar(c) == IsDecimalChar(c) \/ c = "SUP2"
DigitValue(c) == IF c = "AR3" THEN 3 ELSE IndexIn(AsciiDigits, c) - 1

\* str.isdigit(): every character is a digit and there is at least one.
IsDigit(s) == Len(s) > 0 /\ \A i \in 1..Len(s) : IsDigitChar(s[i])

\* int(s) for a string that passed isdigit(): raises ValueError unless every
\* character is a decimal digit.
IntRaises(s) == \E i \in 1..Len(s) : ~IsDecimalChar(s[i])
RECURSIVE IntValue(_)
IntValue(s) ==
    IF Len(s) = 0 THEN 0
    ELSE 10 * IntValue(SubSeq(s, 1, Len(s) - 1)) + DigitValue(s[Len(s)])

StopSentinel == <<"?", "s", "t", "o", "p">>

\* move.lower() == "?stop"
IsStop_CaseSensitive(s) == s = StopSentinel
IsStop(s) == Lower(s) = StopSentinel

(***************************************************************************)
(* winning_combos, in the order of the source.                             *)
(***************************************************************************)
winning_combos ==
    << <<1, 2, 3>>, <<4, 5, 6>>, <<7, 8, 9>>,
       <<1, 4, 7>>, <<2, 5, 8>>, <<3, 6, 9>>,
       <<1, 5, 9>>, <<3, 5, 7>> >>

Range(seq) == {seq[i] : i \in 1..Len(seq)}

(***************************************************************************)
(* Player.                                                                 *)
(***************************************************************************)
\* list.sort() of a list whose last element was just appended to a sorted
\* list: insertion sort, stable.
RECURSIVE SortSeq(_)
SortSeq(s) ==
    IF Len(s) <= 1 THEN s
    ELSE LET rest == SortSeq(SubSeq(s, 1, Len(s) - 1))
             x == s[Len(s)]
             k == Cardinality({i \in 1..Len(rest) : rest[i] <= x})
         IN SubSeq(rest, 1, k) \o <<x>> \o SubSeq(rest, k + 1, Len(rest))

\* Player.__init__
NewPlayer(name, marker) ==
    [name |-> Title(name), marker |-> marker, moves |-> <<>>, score |-> 0]

\* Player.add_move
Player_add_move_NoSort(p, move) == [p EXCEPT !.moves = Append(@, move)]
Player_add_move(p, move) == [p EXCEPT !.moves = SortSeq(Append(@, move))]

\* Player.reset_moves
reset_moves(p) == [p EXCEPT !.moves = <<>>]

(***************************************************************************)
(* The store.  The scores table rejects a second row with the same name    *)
(* (sqlite3.IntegrityError); add_score relies on it.                       *)
(***************************************************************************)
RowsOf(table, name) == {i \in 1..Len(table) : table[i].name = name}

\* The uniqueness constraint on scores.name.
UniqueConflict(table, name) == RowsOf(table, name) # {}

\* INSERT INTO scores VALUES (?, 1)
InsertScore(table, name) ==
    IF UniqueConflict(table, name)
    THEN [ok |-> FALSE, table |-> table]
    ELSE [ok |-> TRUE, table |-> Append(table, [name |-> name, score |-> 1])]

\* UPDATE scores SET score = score + 1 WHERE name = ?
UpdateScore(table, name) ==
    [i \in 1..Len(table) |->
        IF table[i].name = name THEN [table[i] EXCEPT !.score = @ + 1]
        ELSE table[i]]

\* Player.add_score, lines 166-168: the handler of sqlite3.IntegrityError.
OnIntegrityError_Swallow(table, name) == table
OnIntegrityError(table, name) == UpdateScore(table, name)

\* Player.add_score: the Player and the scores table after the call.
add_score(p, table) ==
    LET ins == InsertScore(table, p.name)
    IN [player |-> [p EXCEPT !.score = @ + 1],
        scores |-> IF ins.ok THEN ins.table ELSE OnIntegrityError(table, p.name)]

\* reset_data: the two tables after the call, and whether it raised ValueError.
\* The argument is <<>> for None (no argument) and <<text>> for a string.
reset_data_LeaderboardClearsAll(specific_data, sc, hist) ==
    IF specific_data = <<>> \/ specific_data = <<"Leaderboard">>
    THEN [scores |-> <<>>, history |-> <<>>, raised |-> FALSE]
    ELSE IF specific_data = <<"History">>
    THEN [scores |-> sc, history |-> <<>>, raised |-> FALSE]
    ELSE [scores |-> sc, history |-> hist, raised |-> TRUE]
reset_data(specific_data, sc, hist) ==
    IF specific_data = <<>>
    THEN [scores |-> <<>>, history |-> <<>>, raised |-> FALSE]
    ELSE IF specific_data = <<"Leaderboard">>
    THEN [scores |-> <<>>, history |-> hist, raised |-> FALSE]
    ELSE IF specific_data = <<"History">>
    THEN [scores |-> sc, history |-> <<>>, raised |-> FALSE]
    ELSE [scores |-> sc, history |-> hist, raised |-> TRUE]

(***************************************************************************)
(* Board.                                                                  *)
(***************************************************************************)
EmptyBoard == [c \in {} |-> "X"]

\* Board.add_move: whether the move was placed, the board and the Player.
Board_add_move_Overwrite(b, move, p) ==
    [ok |-> TRUE,
     board |-> [c \in DOMAIN b \cup {move} |-> IF c = move THEN p.marker ELSE b[c]],
     player |-> Player_add_move(p, move)]
Board_add_move(b, move, p) ==
    IF move \in DOMAIN b
    THEN [ok |-> FALSE, board |-> b, player |-> p]
    ELSE [ok |-> TRUE,
          board |-> [c \in DOMAIN b \cup {move} |-> IF c = move THEN p.marker ELSE b[c]],
          player |-> Player_add_move(p, move)]

\* Board.is_full
is_full(b) == Cardinality(DOMAIN b) = 9

\* Board.check_winner: the first combination, in the order of winning_combos,
\* all of whose cells are in the player's moves.
ComboHeld(combo, p) == \A i \in 1..Len(combo) : combo[i] \in Range(p.moves)
check_winner_RowsOnly(p) ==
    LET hits == {k \in 1..3 : ComboHeld(winning_combos[k], p)}
    IN IF hits = {} THEN [won |-> FALSE, combo |-> <<>>]
       ELSE [won |-> TRUE,
             combo |-> winning_combos[CHOOSE k \in hits : \A j \in hits : k <= j]]
check_winner_NoDiagonals(p) ==
    LET hits == {k \in 1..6 : ComboHeld(winning_combos[k], p)}
    IN IF hits = {} THEN [won |-> FALSE, combo |-> <<>>]
       ELSE [won |-> TRUE,
             combo |-> winning_combos[CHOOSE k \in hits : \A j \in hits : k <= j]]
check_winner_LastMatch(p) ==
    LET hits == {k \in 1..Len(winning_combos) : ComboHeld(winning_combos[k], p)}
    IN IF hits = {} THEN [won |-> FALSE, combo |-> <<>>]
       ELSE [won |-> TRUE,
             combo |-> winning_combos[CHOOSE k \in hits : \A j \in hits : j <= k]]
check_winner(p) ==
    LET hits == {k \in 1..Len(winning_combos) : ComboHeld(winning_combos[k], p)}
    IN IF hits = {} THEN [won |-> FALSE, combo |-> <<>>]
       ELSE [won |-> TRUE,
             combo |-> winning_combos[CHOOSE k \in hits : \A j \in hits : k <= j]]

(***************************************************************************)
(* Game.                                                                   *)
(***************************************************************************)
Markers == <<"X", "O">>

\* The position after i in the cycle over the two players.
Other_Same(i) == i
Other(i) == 3 - i

\* The Player whose turn it is: cur_player = next(players_iter).
CurPlayer == players[cur]

\* Game.save: round_num and the history table after the call; t is what
\* time.time() reads during the call (line 261), any reading: nothing orders
\* the wall clock between two calls.
HistoryRow(ps, pl, w, t) ==
    [player1 |-> pl[ps[1]].name, player2 |-> pl[ps[2]].name,
     winner |-> IF w = None THEN Null ELSE pl[w].name, timestamp |-> t]
Game_save_Prepend(rn, ps, pl, w, hist, t) ==
    [round_num |-> rn + 1,
     history |-> <<HistoryRow(ps, pl, w, t)>> \o hist,
     clock |-> t]
Game_save_NoRoundIncrement(rn, ps, pl, w, hist, t) ==
    [round_num |-> rn,
     history |-> Append(hist, HistoryRow(ps, pl, w, t)),
     clock |-> t]
Game_save(rn, ps, pl, w, hist, t) ==
    [round_num |-> rn + 1,
     history |-> Append(hist, HistoryRow(ps, pl, w, t)),
     clock |-> t]

\* A player's moves include some winning combination.
HoldsCombo(p) == \E k \in 1..Len(winning_combos) : ComboHeld(winning_combos[k], p)

\* What the observer notes when a round ends: the two names in turn order and
\* the winner's name, or Null for a draw.
Outcome(w) ==
    [first |-> player[players[1]].name, second |-> player[players[2]].name,
     result |-> IF w = None THEN Null ELSE player[w].name]

\* The variables a move prompt can change, as a record.
Now ==
    [pc |-> pc, status |-> status, board |-> board, player |-> player,
     cur |-> cur, winner |-> winner, round_num |-> round_num,
     scores |-> scores, history |-> history, clock |-> clock,
     error |-> error, completed |-> completed]

\* What the observer counts for the running session: per Player object the
\* rounds it won or drew, the rounds completed, and the draws among them.  The
\* observer judges a round by the board: the round is over when the player
\* who just placed holds a line (a win) or else the ninth cell is taken (a draw).
NoSession == [credit |-> [i \in 1..2 |-> 0], rounds |-> 0, draws |-> 0]
SessionAfter(r) ==
    LET mover == players[cur]
    IN IF r.pc = "crashed" \/ r.board = board THEN session
       ELSE IF HoldsCombo(r.player[mover])
       THEN [session EXCEPT !.credit[mover] = @ + 1, !.rounds = @ + 1]
       ELSE IF Cardinality(DOMAIN r.board) = 9
       THEN [credit |-> [i \in 1..2 |-> session.credit[i] + 1],
             rounds |-> session.rounds + 1, draws |-> session.draws + 1]
       ELSE session

\* The state of a process that has not started a game: Game.__init__ and no
\* Player objects yet.
NoPlayer == [name |-> <<>>, marker |-> "X", moves |-> <<>>, score |-> 0]
Fresh ==
    [pc |-> "menu", status |-> "None", board |-> EmptyBoard,
     player |-> [i \in 1..2 |-> NoPlayer], cur |-> 1, winner |-> None,
     round_num |-> 1]

\* Game.start, lines 301-316: the current player has won.
WonRound(pl1, t) ==
    LET cp == CurPlayer
        a == add_score(pl1[cp], scores)
        pl2 == [pl1 EXCEPT ![cp] = a.player]
        sv == Game_save(round_num, players, pl2, cp, history, t)
    IN [player |-> pl2, scores |-> a.scores, winner |-> cp,
        round_num |-> sv.round_num, history |-> sv.history, clock |-> sv.clock]

\* Game.start, lines 318-332: the board is full; add_score on each of
\* self.players in order, then save with no winner.
DrawRound_FirstOnly(pl1, t) ==
    LET a == add_score(pl1[players[1]], scores)
        pl2 == [pl1 EXCEPT ![players[1]] = a.player]
        sv == Game_save(round_num, players, pl2, None, history, t)
    IN [player |-> pl2, scores |-> a.scores, winner |-> None,
        round_num |-> sv.round_num, history |-> sv.history, clock |-> sv.clock]
DrawRound(pl1, t) ==
    LET a == add_score(pl1[players[1]], scores)
        pl2 == [pl1 EXCEPT ![players[1]] = a.player]
        b == add_score(pl2[players[2]], a.scores)
        pl3 == [pl2 EXCEPT ![players[2]] = b.player]
        sv == Game_save(round_num, players, pl3, None, history, t)
    IN [player |-> pl3, scores |-> b.scores, winner |-> None,
        round_num |-> sv.round_num, history |-> sv.history, clock |-> sv.clock]

\* Game.start, lines 297-332: after a successful placement.
AfterPlacement_FullFirst(placed, t) ==
    LET cp == CurPlayer
        pl1 == [player EXCEPT ![cp] = placed.player]
    IN IF is_full(placed.board)
       THEN LET r == DrawRound(pl1, t)
            IN [Now EXCEPT !.board = placed.board, !.player = r.player,
                    !.scores = r.scores, !.winner = r.winner,
                    !.round_num = r.round_num, !.history = r.history,
                    !.clock = r.clock, !.status = "Draw", !.pc = "rematch",
                    !.completed = Append(@, Outcome(None))]
       ELSE IF check_winner(pl1[cp]).won
       THEN LET r == WonRound(pl1, t)
            IN [Now EXCEPT !.board = placed.board, !.player = r.player,
                    !.scores = r.scores, !.winner = r.winner,
                    !.round_num = r.round_num, !.history = r.history,
                    !.clock = r.clock, !.status = "Won", !.pc = "rematch",
                    !.completed = Append(@, Outcome(cp))]
       ELSE [Now EXCEPT !.board = placed.board, !.player = pl1,
                 !.cur = Other(cur)]
AfterPlacement(placed, t) ==
    LET cp == CurPlayer
        pl1 == [player EXCEPT ![cp] = placed.player]
    IN IF check_winner(pl1[cp]).won
       THEN LET r == WonRound(pl1, t)
            IN [Now EXCEPT !.board = placed.board, !.player = r.player,
                    !.scores = r.scores, !.winner = r.winner,
                    !.round_num = r.round_num, !.history = r.history,
                    !.clock = r.clock, !.status = "Won", !.pc = "rematch",
                    !.completed = Append(@, Outcome(cp))]
       ELSE IF is_full(placed.board)
       THEN LET r == DrawRound(pl1, t)
            IN [Now EXCEPT !.board = placed.board, !.player = r.player,
                    !.scores = r.scores, !.winner = r.winner,
                    !.round_num = r.round_num, !.history = r.history,
                    !.clock = r.clock, !.status = "Draw", !.pc = "rematch",
                    !.completed = Append(@, Outcome(None))]
       ELSE [Now EXCEPT !.board = placed.board, !.player = pl1,
                 !.cur = Other(cur)]

\* The process after an uncaught exception: Game.start and main unwind (only
\* KeyboardInterrupt is caught, line 569), the objects are gone, the store stays.
Crashed(exc) ==
    [Now EXCEPT !.pc = "crashed", !.status = Fresh.status, !.board = Fresh.board,
         !.player = Fresh.player, !.cur = Fresh.cur, !.winner = Fresh.winner,
         !.round_num = Fresh.round_num, !.error = exc]

\* Game.start, lines 280-332: one line of input at the move prompt, up to the
\* next prompt.
MoveResult_NoRangeCheck(raw, t) ==
    IF IsStop(raw) THEN [Now EXCEPT !.pc = "menu", !.status = "Aborted"]
    ELSE IF ~IsDigit(raw) THEN Now
    ELSE IF IntRaises(raw) THEN Crashed("ValueError")
    ELSE LET placed == Board_add_move(board, IntValue(raw), player[CurPlayer])
         IN IF placed.ok THEN AfterPlacement(placed, t) ELSE Now
MoveResult(raw, t) ==
    IF IsStop(raw) THEN [Now EXCEPT !.pc = "menu", !.status = "Aborted"]
    ELSE IF ~IsDigit(raw) THEN Now
    ELSE IF IntRaises(raw) THEN Crashed("ValueError")
    ELSE IF ~(1 <= IntValue(raw) /\ IntValue(raw) <= 9) THEN Now
    ELSE LET placed == Board_add_move(board, IntValue(raw), player[CurPlayer])
         IN IF placed.ok THEN AfterPlacement(placed, t) ELSE Now

\* Game.start, lines 339-353: the rematch is accepted; the players in reverse
\* order, moves reset, markers re-bound by position.
RematchPlayers_NoSwap(ps) == ps
RematchPlayers(ps) == <<ps[2], ps[1]>>

RematchResult ==
    LET ps == RematchPlayers(players)
    IN [players |-> ps,
        player |-> [i \in 1..2 |->
                      LET index == CHOOSE k \in 1..2 : ps[k] = i
                      IN [reset_moves(player[i]) EXCEPT !.marker = Markers[index]]]]

(***************************************************************************)
(* Inputs.                                                                 *)
(***************************************************************************)
\* Lines typed at the move prompt: the digits "0".."9", numbers out of range,
\* zero-padded, signed and space-padded, empty and non-numeric text, a
\* superscript digit, a decimal digit of another script, the stop sentinel in
\* three letter cases and a near miss.
MoveInputs ==
    {<<AsciiDigits[k]>> : k \in 1..10}
    \cup { <<"1", "0">>, <<"0", "5">>, <<>>, <<"a">>, <<"-", "1">>,
           <<" ", "1">>, <<"SUP2">>, <<"AR3">>,
           <<"?", "s", "t", "o", "p">>, <<"?", "S", "T", "O", "P">>,
           <<"?", "S", "t", "o", "p">>, <<"?", "s", "t", "o">> }

\* What time.time() may read when Game.save asks: two readings, so that a
\* later row may carry the same, a later or an earlier timestamp.
Readings == {40, 100}

\* Lines typed at the two name prompts.
Name1Inputs == { <<"a", "l">>, <<"A", "L">>, <<"?", "S", "T", "O", "P">> }
Name2Inputs == { <<"a", "l">>, <<>>, <<"?", "s", "t", "o", "p">> }

DefaultName1 == <<"P", "l", "a", "y", "e", "r", " ", "1">>
DefaultName2 == <<"P", "l", "a", "y", "e", "r", " ", "2">>

\* main, lines 549-550: `name if name else default`; only the empty string is
\* false.
NameOrDefault(raw, default) == IF raw # <<>> THEN raw ELSE default

(***************************************************************************)
(* The interactive program.                                                *)
(***************************************************************************)
Init ==
    /\ pc = "menu"
    /\ status = "None"
    /\ board = EmptyBoard
    /\ players = <<1, 2>>
    /\ player = [i \in 1..2 |-> NoPlayer]
    /\ cur = 1
    /\ winner = None
    /\ round_num = 1
    /\ scores = <<>>
    /\ history = <<>>
    /\ clock = 0
    /\ error = "none"
    /\ completed = <<>>
    /\ calls = [i \in 1..2 |-> 0]
    /\ base = [i \in 1..2 |-> 0]
    /\ proc = [i \in 1..2 |-> "idle"]
    /\ dblock = 0
    /\ waited = [i \in 1..2 |-> 0]
    /\ typed = <<>>
    /\ session = NoSession

\* main, lines 533-557: menu entry "Play", the two name prompts, a new Game.
Play(raw1, raw2) ==
    /\ pc = "menu"
    /\ Len(history) < MaxRecorded
    /\ IF IsStop(raw1) \/ IsStop(raw2)
       THEN UNCHANGED <<pc, status, board, players, player, cur, winner, round_num,
                        session>>
       ELSE LET name1 == NameOrDefault(raw1, DefaultName1)
                name2 == NameOrDefault(raw2, DefaultName2)
            IN /\ player' = [i \in 1..2 |->
                               IF i = 1 THEN NewPlayer(name1, Markers[1])
                               ELSE NewPlayer(name2, Markers[2])]
               /\ players' = <<1, 2>>
               /\ board' = EmptyBoard
               /\ winner' = None
               /\ round_num' = 1
               /\ cur' = 1
               /\ status' = "InProgress"
               /\ pc' = "move"
               /\ session' = NoSession
    /\ UNCHANGED <<scores, history, clock, error, completed, calls, base, proc, dblock, waited,
                   typed>>

\* Game.start, lines 277-332: one input at the move prompt.  time.time() is
\* read by Game.save only, so its reading is an input of the lines that end
\* the round and of no others.
Move(raw) ==
    /\ pc = "move"
    /\ \E r0 \in {MoveResult(raw, CHOOSE t \in Readings : TRUE)} :
       \E r \in (IF r0.history = history THEN {r0}
                 ELSE {MoveResult(raw, t) : t \in Readings}) :
          /\ pc' = r.pc
          /\ status' = r.status
          /\ board' = r.board
          /\ player' = r.player
          /\ cur' = r.cur
          /\ winner' = r.winner
          /\ round_num' = r.round_num
          /\ scores' = r.scores
          /\ history' = r.history
          /\ clock' = r.clock
          /\ error' = r.error
          /\ completed' = r.completed
          /\ session' = SessionAfter(r)
    /\ UNCHANGED <<players, calls, base, proc, dblock, waited, typed>>

\* Game.start, lines 334-353: "Bring it!".
RematchAccept ==
    /\ pc = "rematch"
    /\ Len(history) < MaxCompleted
    /\ \E r \in {RematchResult} :
          /\ players' = r.players
          /\ player' = r.player
    /\ board' = EmptyBoard
    /\ winner' = None
    /\ cur' = 1
    /\ status' = "InProgress"
    /\ pc' = "move"
    /\ UNCHANGED <<round_num, scores, history, clock, error, completed, calls,
                   base, proc, dblock, waited,
                   typed, session>>

\* Game.start, line 339 not taken: "Nop, I'm out!"; start returns to main.
RematchDecline ==
    /\ pc = "rematch"
    /\ pc' = "menu"
    /\ UNCHANGED <<status, board, players, player, cur, winner, round_num, scores,
                   history, clock, error, completed, calls, base, proc, dblock, waited,
                   typed, session>>

Next ==
    \/ \E raw1 \in Name1Inputs, raw2 \in Name2Inputs : Play(raw1, raw2)
    \/ \E raw \in MoveInputs : Move(raw)
    \/ RematchAccept
    \/ RematchDecline

Spec == Init /\ [][Next]_vars

(***************************************************************************)
(* Properties of the interactive program.                                  *)
(***************************************************************************)
\* The score on record for a name (0 when it has no row).
ScoreOf(table, name) ==
    IF RowsOf(table, name) = {} THEN 0
    ELSE table[CHOOSE i \in RowsOf(table, name) : TRUE].score

\* A step in which the current player's input was placed on the board.
Placement == pc = "move" /\ pc' \in {"move", "rematch"} /\ board' # board

\* A placement that completes a winning combination for the player who moved.
WinningPlacement == Placement /\ HoldsCombo(player'[CurPlayer])

WinDetected ==
    LET cp == CurPlayer
        w == check_winner(player'[cp])
    IN /\ w.won
       /\ \E k \in 1..Len(winning_combos) : w.combo = winning_combos[k]
       /\ Range(w.combo) \subseteq Range(player'[cp].moves)
       /\ status' = "Won"
       /\ pc' = "rematch"
       /\ winner' = cp
       /\ player'[cp].score = player[cp].score + 1
       /\ player'[players[Other(cur)]].score = player[players[Other(cur)]].score

\* C1 as stated: a placement that completes a winning combination is detected
\* by check_winner with a combination the player holds, ends the round as Won
\* with that player as winner, and increments only that player's score; the
\* other player's in-memory score and store row do not change.
C1_OtherRowUntouched ==
    [][WinningPlacement =>
        /\ WinDetected
        /\ LET other == player[players[Other(cur)]].name
           IN /\ RowsOf(scores', other) = RowsOf(scores, other)
              /\ ScoreOf(scores', other) = ScoreOf(scores, other)]_vars

\* C1 as amended: as above, and the other player's store row is unchanged when
\* the two names differ; when both players have the same name the one row they
\* share goes up by exactly 1.
C1_WinCommitsWinnerOnly ==
    [][WinningPlacement =>
        /\ WinDetected
        /\ LET mine == player[CurPlayer].name
               other == player[players[Other(cur)]].name
           IN /\ Cardinality(RowsOf(scores', mine)) = 1
              /\ ScoreOf(scores', mine) = ScoreOf(scores, mine) + 1
              /\ other # mine =>
                    /\ RowsOf(scores', other) = RowsOf(scores, other)
                    /\ ScoreOf(scores', other) = ScoreOf(scores, other)]_vars

\* A round was just won through a column by a player whose opponent has the
\* same name.
C1_Witness ==
    /\ status = "Won" /\ pc = "rematch" /\ winner = CurPlayer
    /\ check_winner(player[winner]).combo = <<1, 4, 7>>
    /\ player[1].name = player[2].name
    /\ player[winner].score = 1 /\ player[players[Other(cur)]].score = 0

\* C2: the ninth placement of a round in which nobody holds a winning
\* combination fills the board and ends the round as a draw: both players'
\* in-memory scores go up by 1 and exactly one history row, with NULL winner,
\* is appended.
C2_FullBoardIsDraw ==
    [][(/\ Placement
        /\ Cardinality(DOMAIN board') = 9
        /\ \A i \in 1..2 : ~HoldsCombo(player'[i]))
       =>
        /\ is_full(board')
        /\ Len(player'[players[1]].moves) = 5 /\ Len(player'[players[2]].moves) = 4
        /\ status' = "Draw" /\ pc' = "rematch" /\ winner' = None
        /\ \A i \in 1..2 : player'[i].score = player[i].score + 1
        /\ Len(history') = Len(history) + 1
        /\ SubSeq(history', 1, Len(history)) = history
        /\ history'[Len(history')].winner = Null]_vars

\* A drawn round is on record and both players were credited.
C2_Witness ==
    /\ status = "Draw" /\ pc = "rematch"
    /\ Cardinality(DOMAIN board) = 9
    /\ history # <<>> /\ history[Len(history)].winner = Null
    /\ \A i \in 1..2 : player[i].score = 1

\* "?stop" in every letter case.
StopVariants ==
    {<<"?", a, b, c, d>> : a \in {"s", "S"}, b \in {"t", "T"},
                           c \in {"o", "O"}, d \in {"p", "P"}}

\* C3: at every move prompt, "?stop" in any letter case ends the round as
\* Aborted and returns to the menu (no rematch prompt); the scores table, the
\* history table, both players' in-memory scores, the board and the round
\* number stay as they are.
C3_StopAborts ==
    pc = "move" =>
        \A raw \in StopVariants, t \in Readings :
            MoveResult(raw, t) = [Now EXCEPT !.pc = "menu", !.status = "Aborted"]

\* A rematch round was aborted after moves had been placed in it.
C3_Witness ==
    /\ status = "Aborted" /\ pc = "menu"
    /\ board # EmptyBoard
    /\ round_num = 2 /\ Len(history) = 1 /\ scores # <<>>

\* An input the claim calls malformed: not the stop sentinel and not a string
\* of decimal digits that denotes an integer in 1..9.
Malformed(raw) ==
    /\ ~IsStop(raw)
    /\ ~(/\ Len(raw) > 0
         /\ \A i \in 1..Len(raw) : IsDecimalChar(raw[i])
         /\ 1 <= IntValue(raw) /\ IntValue(raw) <= 9)

\* C4: a malformed move input raises no failure, changes nothing and leaves
\* the same player at the prompt.
C4_MalformedInputReprompts ==
    pc = "move" =>
        \A raw \in MoveInputs, t \in Readings :
            Malformed(raw) => MoveResult(raw, t) = Now

\* C5: Board.add_move on an occupied cell returns false and changes neither
\* the board nor the player, whoever attempts it, and at the prompt the same
\* player is asked again.
C5_OccupiedCellRejected ==
    pc = "move" =>
        \A c \in DOMAIN board :
            /\ \A i \in 1..2 :
                  Board_add_move(board, c, player[i])
                      = [ok |-> FALSE, board |-> board, player |-> player[i]]
            /\ \A t \in Readings : MoveResult(<<AsciiDigits[c + 1]>>, t) = Now

\* A move prompt with cells of both players on the board.
C5_Witness ==
    /\ pc = "move"
    /\ \E c, d \in DOMAIN board : board[c] = "X" /\ board[d] = "O"

\* The credits the completed rounds gave a name: one per win, and one per
\* player of that name in a drawn round.
RECURSIVE Credits(_, _)
Credits(log, name) ==
    IF log = <<>> THEN 0
    ELSE LET o == log[Len(log)]
         IN Credits(SubSeq(log, 1, Len(log) - 1), name)
            + (IF o.result = name THEN 1 ELSE 0)
            + (IF o.result = Null /\ o.first = name THEN 1 ELSE 0)
            + (IF o.result = Null /\ o.second = name THEN 1 ELSE 0)

NamesOnRecord ==
    {completed[i].first : i \in 1..Len(completed)}
    \cup {completed[i].second : i \in 1..Len(completed)}
    \cup {scores[i].name : i \in 1..Len(scores)}

\* C6: from an empty store and without resets, after N completed rounds (and
\* any number of aborted ones) history holds exactly N rows, in the order the
\* rounds were completed, and scores holds exactly one row for each name that
\* won or drew, whose count is the number of wins plus draws of the players of
\* that name.
C6_StoreMatchesCompletedRounds ==
    /\ Len(history) = Len(completed)
    /\ \A i \in 1..Len(history) :
          /\ history[i].player1 = completed[i].first
          /\ history[i].player2 = completed[i].second
          /\ history[i].winner = completed[i].result
    /\ \A name \in NamesOnRecord :
          IF Credits(completed, name) = 0 THEN RowsOf(scores, name) = {}
          ELSE /\ Cardinality(RowsOf(scores, name)) = 1
               /\ ScoreOf(scores, name) = Credits(completed, name)

\* Two rounds on record, a draw then a win, the later row carrying the earlier
\* clock reading, and a name credited twice.
C6_Witness ==
    /\ Len(history) = 2
    /\ history[2].timestamp < history[1].timestamp
    /\ history[1].winner = Null /\ history[2].winner # Null
    /\ \E i \in 1..Len(scores) : scores[i].score = 2

\* C9: a rematch is offered only after a round ended Won or Draw (which raised
\* the round number by exactly 1), never after an abort; when it is accepted
\* the next round keeps that round number, has an empty board and empty move
\* lists, takes the players in reverse order (the former "O" holder now holds
\* "X" and moves first, the other holds "O") and keeps both in-memory scores.
C9_RematchSwapsAndKeepsScores ==
    [][/\ (pc' = "rematch" => status' \in {"Won", "Draw"})
       /\ (pc = "move" /\ pc' = "rematch" => round_num' = round_num + 1)
       /\ (pc = "move" /\ status' = "Aborted" => pc' = "menu" /\ round_num' = round_num)
       /\ (pc = "rematch" /\ pc' = "move" =>
            /\ round_num' = round_num
            /\ board' = EmptyBoard
            /\ \A i \in 1..2 : player'[i].moves = <<>>
            /\ players' = <<players[2], players[1]>>
            /\ player[players[2]].marker = "O"
            /\ player'[players'[1]].marker = "X"
            /\ player'[players'[2]].marker = "O"
            /\ cur' = 1
            /\ \A i \in 1..2 : /\ player'[i].score = player[i].score
                               /\ player'[i].name = player[i].name)]_vars

\* The second round of a session: the players swapped, a score carried over.
C9_Witness ==
    /\ pc = "move" /\ status = "InProgress" /\ round_num = 2
    /\ players = <<2, 1>> /\ board = EmptyBoard
    /\ player[2].marker = "X" /\ player[1].marker = "O"
    /\ player[1].score = 1 /\ player[2].score = 0

(***************************************************************************)
(* The store on its own: add_score, Game.save and reset_data called in any *)
(* order on two Player objects, which may have the same name.              *)
(***************************************************************************)
StoreNames == { <<"a", "l">>, <<"A", "L">>, <<"b", "o">> }

ResetArgs ==
    { <<>>, <<"Leaderboard">>, <<"History">>, <<"leaderboard">>, <<"All">>, <<"">> }

\* Observer: calls[i] as it was when the row of player i's name was last absent.
BaseAfter(table, made) ==
    [i \in 1..2 |-> IF RowsOf(table, player[i].name) = {} THEN made[i] ELSE base[i]]

InitStore ==
    /\ pc = "api"
    /\ status = "None"
    /\ board = EmptyBoard
    /\ players = <<1, 2>>
    /\ \E n1 \in StoreNames, n2 \in StoreNames :
          player = [i \in 1..2 |-> IF i = 1 THEN NewPlayer(n1, Markers[1])
                                   ELSE NewPlayer(n2, Markers[2])]
    /\ cur = 1
    /\ winner = None
    /\ round_num = 1
    /\ scores = <<>>
    /\ history = <<>>
    /\ clock = 0
    /\ error = "none"
    /\ completed = <<>>
    /\ calls = [i \in 1..2 |-> 0]
    /\ base = [i \in 1..2 |-> 0]
    /\ proc = [i \in 1..2 |-> "idle"]
    /\ dblock = 0
    /\ waited = [i \in 1..2 |-> 0]
    /\ typed = <<>>
    /\ session = NoSession

\* Player.add_score on Player object i.
CallAddScore(i) ==
    /\ calls[i] < MaxCalls
    /\ \E r \in {add_score(player[i], scores)} :
          /\ player' = [player EXCEPT ![i] = r.player]
          /\ scores' = r.scores
          /\ calls' = [calls EXCEPT ![i] = @ + 1]
          /\ base' = BaseAfter(r.scores, [calls EXCEPT ![i] = @ + 1])
    /\ error' = "none"
    /\ UNCHANGED <<pc, status, board, players, cur, winner, round_num, history,
                   clock, completed, proc, dblock, waited,
                   typed, session>>

\* Game.save with self.winner = w, reading the clock as t; round_num counts
\* the calls made so far.
CallSave(w, t) ==
    /\ round_num - 1 < MaxSaves
    /\ \E r \in {Game_save(round_num, players, player, w, history, t)} :
          /\ round_num' = r.round_num
          /\ history' = r.history
          /\ clock' = r.clock
    /\ winner' = w
    /\ error' = "none"
    /\ UNCHANGED <<pc, status, board, players, player, cur, scores, completed,
                   calls, base, proc, dblock, waited,
                   typed, session>>

\* reset_data(specific_data).
CallReset(specific_data) ==
    /\ \E r \in {reset_data(specific_data, scores, history)} :
          /\ scores' = r.scores
          /\ history' = r.history
          /\ error' = IF r.raised THEN "ValueError" ELSE "none"
          /\ base' = BaseAfter(r.scores, calls)
    /\ UNCHANGED <<pc, status, board, players, player, cur, winner, round_num,
                   clock, completed, calls, proc, dblock, waited,
                   typed, session>>

\* main, lines 489-508: the reset menu; index 3 is "Cancel".
MenuResetArg(index) ==
    IF index = 0 THEN <<>>
    ELSE IF index = 1 THEN <<"History">>
    ELSE <<"Leaderboard">>

MenuReset(index) ==
    IF index = 3 THEN UNCHANGED vars ELSE CallReset(MenuResetArg(index))

NextStore ==
    \/ \E i \in 1..2 : CallAddScore(i)
    \/ \E w \in {None, 1, 2}, t \in Readings : CallSave(w, t)
    \/ \E specific_data \in ResetArgs : CallReset(specific_data)
    \/ \E index \in 0..3 : MenuReset(index)

SpecStore == InitStore /\ [][NextStore]_vars

\* The add_score calls made for a name since its row was last absent.
CallsSinceAbsent(name) ==
    (IF player[1].name = name THEN calls[1] - base[1] ELSE 0)
    + (IF player[2].name = name THEN calls[2] - base[2] ELSE 0)

\* C7: every add_score call raises the Player's in-memory score by exactly 1;
\* the scores table never holds two rows with one name, holds rows only for
\* names add_score was called for, and a name's count is the number of
\* add_score calls made for it, by whichever Player objects, since its row was
\* last absent.
C7_UpsertCountsCalls ==
    /\ \A i \in 1..2 : player[i].score = calls[i]
    /\ \A r \in 1..Len(scores) : \E i \in 1..2 : scores[r].name = player[i].name
    /\ \A i \in 1..2 :
          LET name == player[i].name
          IN /\ Cardinality(RowsOf(scores, name)) <= 1
             /\ (RowsOf(scores, name) = {}) = (CallsSinceAbsent(name) = 0)
             /\ ScoreOf(scores, name) = CallsSinceAbsent(name)

\* Two Player objects with one name; the first was credited once before the
\* scores were reset, then both were credited once: one row, count 2.
C7_Witness ==
    /\ player[1].name = player[2].name
    /\ calls = <<2, 1>> /\ base = <<1, 0>>
    /\ Len(scores) = 1 /\ scores[1].score = 2

\* C10: reset_data applies exactly the requested deletion: with no argument
\* both tables are emptied; with "Leaderboard" scores is emptied and history
\* kept; with "History" history is emptied and scores kept; any other argument
\* raises and leaves both tables as they are.  The reset menu of main passes
\* only valid targets: "All" no argument, "History" and "Leaderboard" their own.
C10_ResetDeletesExactlyTheTarget ==
    /\ \A specific_data \in ResetArgs :
          LET r == reset_data(specific_data, scores, history)
          IN IF specific_data = <<>>
             THEN r.scores = <<>> /\ r.history = <<>> /\ ~r.raised
             ELSE IF specific_data = <<"Leaderboard">>
             THEN r.scores = <<>> /\ r.history = history /\ ~r.raised
             ELSE IF specific_data = <<"History">>
             THEN r.scores = scores /\ r.history = <<>> /\ ~r.raised
             ELSE r.scores = scores /\ r.history = history /\ r.raised
    /\ \A index \in 0..2 : MenuResetArg(index) \in ResetArgs
    /\ ~reset_data(MenuResetArg(0), scores, history).raised
    /\ reset_data(MenuResetArg(1), scores, history).scores = scores
    /\ reset_data(MenuResetArg(2), scores, history).history = history

\* Both tables hold rows and the last call, a reset with an invalid target,
\* raised.
C10_Witness ==
    /\ error = "ValueError"
    /\ scores # <<>> /\ history # <<>>

(***************************************************************************)
(* Two processes on one database file, each inside add_score for its own   *)
(* Player object.  sqlite gives the write lock to one connection at a      *)
(* time, from its first write statement to its commit; the other waits,    *)
(* for its busy timeout at most.                                           *)
(***************************************************************************)
RaceNames == { <<"a", "l">>, <<"b", "o">> }
BystanderName == <<"c", "y">>

PriorTables ==
    {<<>>} \cup {<<[name |-> Title(BystanderName), score |-> k]>> : k \in 1..MaxPrior}

InitRace ==
    /\ pc = "race"
    /\ status = "None"
    /\ board = EmptyBoard
    /\ players = <<1, 2>>
    /\ \E n1 \in RaceNames, n2 \in RaceNames, s1 \in 0..MaxPrior, s2 \in 0..MaxPrior :
          player = [i \in 1..2 |->
                      IF i = 1 THEN [NewPlayer(n1, Markers[1]) EXCEPT !.score = s1]
                      ELSE [NewPlayer(n2, Markers[2]) EXCEPT !.score = s2]]
    /\ cur = 1
    /\ winner = None
    /\ round_num = 1
    /\ scores \in PriorTables
    /\ history = <<>>
    /\ clock = 0
    /\ error = "none"
    /\ completed = <<>>
    /\ calls = [i \in 1..2 |-> 0]
    /\ base = [i \in 1..2 |-> 0]
    /\ proc = [i \in 1..2 |-> "start"]
    /\ dblock = 0
    /\ waited = [i \in 1..2 |-> 0]
    /\ typed = <<>>
    /\ session = NoSession

\* add_score, lines 160-162: the in-memory score, then the connection.
RaceBegin(i) ==
    /\ proc[i] = "start"
    /\ player' = [player EXCEPT ![i].score = @ + 1]
    /\ proc' = [proc EXCEPT ![i] = "insert"]
    /\ UNCHANGED <<pc, status, board, players, cur, winner, round_num, scores,
                   history, clock, error, completed, calls, base, dblock,
                   waited, typed, session>>

\* add_score, lines 163-165: the INSERT, with the write lock free when it is
\* executed or freed while the connection waits for it.
RaceInsert(i) ==
    /\ proc[i] \in {"insert", "waiting"}
    /\ dblock = 0
    /\ dblock' = i
    /\ \E ins \in {InsertScore(scores, player[i].name)} :
          /\ scores' = ins.table
          /\ proc' = [proc EXCEPT ![i] = IF ins.ok THEN "commit_insert" ELSE "update"]
    /\ UNCHANGED <<pc, status, board, players, player, cur, winner, round_num,
                   history, clock, error, completed, calls, base, waited,
                   typed, session>>

\* add_score, line 165, executed while the other connection holds the write
\* lock: sqlite keeps retrying for the connection's busy timeout.
RaceWait(i) ==
    /\ proc[i] = "insert"
    /\ dblock \notin {0, i}
    /\ proc' = [proc EXCEPT ![i] = "waiting"]
    /\ waited' = [waited EXCEPT ![i] = 0]
    /\ UNCHANGED <<pc, status, board, players, player, cur, winner, round_num,
                   scores, history, clock, error, completed, calls, base,
                   dblock, typed, session>>

\* A second passes for a connection that waits for the lock.  The holder
\* commits right after its INSERT (line 165, then dbopen.__exit__, line 132),
\* so seconds pass here only while the holding process is kept from running
\* (suspended, or starved by the machine); the code puts no bound on that.
RaceTick ==
    /\ \E i \in 1..2 : proc[i] = "waiting" /\ waited[i] < BusyTimeout
    /\ waited' = [i \in 1..2 |->
                    IF proc[i] = "waiting" /\ waited[i] < BusyTimeout
                    THEN waited[i] + 1 ELSE waited[i]]
    /\ UNCHANGED <<pc, status, board, players, player, cur, winner, round_num,
                   scores, history, clock, error, completed, calls, base, proc,
                   dblock, typed, session>>

\* add_score, line 165, when the whole busy timeout has passed and the lock
\* is still held: the INSERT raises sqlite3.OperationalError "database is
\* locked", which the except clause of line 166 does not catch.  Nothing is
\* written, the in-memory score keeps its increment and the exception leaves
\* add_score: a failure of the store, as in SpecIO.
RaceTimeout(i) ==
    /\ proc[i] = "waiting"
    /\ waited[i] = BusyTimeout
    /\ dblock \notin {0, i}
    /\ proc' = [proc EXCEPT ![i] = "raised"]
    /\ error' = "OperationalError"
    /\ UNCHANGED <<pc, status, board, players, player, cur, winner, round_num,
                   scores, history, clock, completed, calls, base, dblock,
                   waited, typed, session>>

\* add_score, lines 166-168: IntegrityError was raised.
RaceUpdate(i) ==
    /\ proc[i] = "update"
    /\ scores' = OnIntegrityError(scores, player[i].name)
    /\ proc' = [proc EXCEPT ![i] = "commit_update"]
    /\ UNCHANGED <<pc, status, board, players, player, cur, winner, round_num,
                   history, clock, error, completed, calls, base, dblock,
                   waited, typed, session>>

\* dbopen.__exit__: commit and close; the write lock is released.
RaceCommit(i) ==
    /\ proc[i] \in {"commit_insert", "commit_update"}
    /\ dblock' = 0
    /\ proc' = [proc EXCEPT ![i] = IF proc[i] = "commit_insert" THEN "inserted"
                                   ELSE "updated"]
    /\ UNCHANGED <<pc, status, board, players, player, cur, winner, round_num,
                   scores, history, clock, error, completed, calls, base,
                   waited, typed, session>>

NextRace ==
    \/ \E i \in 1..2 :
          \/ RaceBegin(i) \/ RaceInsert(i) \/ RaceWait(i) \/ RaceTimeout(i)
          \/ RaceUpdate(i) \/ RaceCommit(i)
    \/ RaceTick

SpecRace == InitRace /\ [][NextRace]_vars

\* Both attempts have executed their statements and committed.
RaceOver == \A i \in 1..2 : proc[i] \in {"inserted", "updated"}

\* An attempt was ended by a failure of the store: the lock wait ran out.
RaceFailed(i) == proc[i] = "raised"

\* C8: two add_score attempts for one name that has no row, their INSERT and
\* UPDATE steps interleaved in any order, never leave two rows for the name;
\* when both have committed, one has inserted, the other has met the conflict
\* and updated, and the name's one row counts 2.  An attempt is cut short
\* only by a failure of the store, after it has waited the whole busy timeout
\* for the lock: it then has written nothing and the other attempt's insert
\* stands.
C8_RacingFirstCommitsConverge ==
    /\ \A i \in 1..2 : Cardinality(RowsOf(scores, player[i].name)) <= 1
    /\ (RaceOver /\ player[1].name = player[2].name) =>
          /\ {proc[1], proc[2]} = {"inserted", "updated"}
          /\ Cardinality(RowsOf(scores, player[1].name)) = 1
          /\ ScoreOf(scores, player[1].name) = 2
    /\ \A i \in 1..2 :
          RaceFailed(i) =>
             /\ waited[i] = BusyTimeout
             /\ error = "OperationalError"
             /\ ~RaceFailed(3 - i)
             /\ proc[3 - i] \in {"commit_insert", "commit_update",
                                  "inserted", "updated"}
             /\ player[1].name = player[2].name =>
                   (proc[3 - i] = "inserted" =>
                       ScoreOf(scores, player[1].name) = 1)

\* Both processes have committed for the same name; the first to execute its
\* INSERT waited for the lock, for the whole busy timeout, was granted it
\* and updated the row the other had inserted.
C8_Witness ==
    /\ RaceOver
    /\ player[1].name = player[2].name
    /\ proc[1] = "updated" /\ proc[2] = "inserted"
    /\ waited[1] = BusyTimeout
    /\ ScoreOf(scores, player[1].name) = 2

(***************************************************************************)
(* The name prompts (main, lines 533-553) on their own: SpecNames.         *)
(***************************************************************************)
\* Lines typed at a name prompt: a name in four letter cases, with a space
\* before, after and inside, a blank line, the empty line, two words, and
\* the stop sentinel.
NameInputs ==
    { <<"a", "l">>, <<"A", "L">>, <<"A", "l">>, <<"a", "L">>,
      <<" ", "a", "l">>, <<"a", "l", " ">>, <<" ", "A", "L", " ">>,
      <<"a", " ", "l">>, <<" ">>, <<" ", " ">>, <<>>,
      <<"b", "o", " ", "l", "e", "e">>,
      <<"?", "s", "t", "o", "p">>, <<"?", "S", "t", "o", "p">> }

InitNames ==
    /\ pc = "name1"
    /\ status = "None"
    /\ board = EmptyBoard
    /\ players = <<1, 2>>
    /\ player = [i \in 1..2 |-> NoPlayer]
    /\ cur = 1
    /\ winner = None
    /\ round_num = 1
    /\ scores = <<>>
    /\ history = <<>>
    /\ clock = 0
    /\ error = "none"
    /\ completed = <<>>
    /\ calls = [i \in 1..2 |-> 0]
    /\ base = [i \in 1..2 |-> 0]
    /\ proc = [i \in 1..2 |-> "idle"]
    /\ dblock = 0
    /\ waited = [i \in 1..2 |-> 0]
    /\ typed = <<>>
    /\ session = NoSession

\* main, line 520: menu entry "Play" is chosen again.
ChoosePlay ==
    /\ pc = "menu"
    /\ pc' = "name1"
    /\ typed' = <<>>
    /\ UNCHANGED <<status, board, players, player, cur, winner, round_num, scores,
                   history, clock, error, completed, calls, base, proc, dblock, waited,
                   session>>

\* main, lines 533-539: the first name prompt and its stop check.
EnterName1(raw) ==
    /\ pc = "name1"
    /\ IF IsStop(raw)
       THEN pc' = "menu" /\ typed' = <<>>
       ELSE pc' = "name2" /\ typed' = <<raw>>
    /\ UNCHANGED <<status, board, players, player, cur, winner, round_num, scores,
                   history, clock, error, completed, calls, base, proc, dblock, waited,
                   session>>

\* main, lines 541-557: the second name prompt and its stop check, the
\* defaults, the two Player objects and the new Game at its first move prompt.
EnterName2(raw) ==
    /\ pc = "name2"
    /\ IF IsStop(raw)
       THEN /\ pc' = "menu"
            /\ typed' = <<>>
            /\ UNCHANGED <<status, board, players, player, cur, winner, round_num,
                           session>>
       ELSE /\ typed' = Append(typed, raw)
            /\ player' = [i \in 1..2 |->
                            IF i = 1
                            THEN NewPlayer(NameOrDefault(typed[1], DefaultName1),
                                           Markers[1])
                            ELSE NewPlayer(NameOrDefault(raw, DefaultName2),
                                           Markers[2])]
            /\ players' = <<1, 2>>
            /\ board' = EmptyBoard
            /\ winner' = None
            /\ round_num' = 1
            /\ cur' = 1
            /\ status' = "InProgress"
            /\ pc' = "move"
            /\ session' = NoSession
    /\ UNCHANGED <<scores, history, clock, error, completed, calls, base, proc,
                   dblock, waited>>

NextNames ==
    \/ ChoosePlay
    \/ \E raw \in NameInputs : EnterName1(raw)
    \/ \E raw \in NameInputs : EnterName2(raw)

SpecNames == InitNames /\ [][NextNames]_vars

\* A text without its leading and trailing spaces.
Strip(s) ==
    LET solid == {i \in 1..Len(s) : s[i] # " "}
    IN IF solid = {} THEN <<>>
       ELSE SubSeq(s, CHOOSE i \in solid : \A j \in solid : i <= j,
                      CHOOSE i \in solid : \A j \in solid : j <= i)

\* The name the claim expects for a raw line: trimmed and title-cased, or the
\* positional default when nothing is left.
Normalised(raw, default) ==
    IF Strip(raw) = <<>> THEN default ELSE Title(Strip(raw))

\* C11: once both names are entered, each Player's name is the typed line
\* trimmed of surrounding whitespace and title-cased, or the positional
\* default when the line is empty or blank; two typed lines that differ only
\* in letter case or surrounding whitespace give the same name, hence the same
\* score row.
C11_NamesNormalised ==
    (pc = "move" /\ Len(typed) = 2) =>
        /\ player[1].name = Normalised(typed[1], DefaultName1)
        /\ player[2].name = Normalised(typed[2], DefaultName2)
        /\ (Strip(typed[1]) # <<>> /\ Lower(Strip(typed[1])) = Lower(Strip(typed[2])))
              => player[1].name = player[2].name

(***************************************************************************)
(* The store failing during the commit of a round: SpecIO.                 *)
(***************************************************************************)
\* Game.start, lines 288-295: the placement an input line leads to, not ok
\* when the line is the sentinel, is rejected or raises.
PlacementOf(raw) ==
    IF IsStop(raw) \/ ~IsDigit(raw) \/ IntRaises(raw)
       \/ ~(1 <= IntValue(raw) /\ IntValue(raw) <= 9)
    THEN [ok |-> FALSE, board |-> board, player |-> player[CurPlayer]]
    ELSE Board_add_move(board, IntValue(raw), player[CurPlayer])

\* Game.start, lines 301-332: the store operations that follow a successful
\* placement, in the order of the code, each with the Player it concerns.
CommitSteps(pl1, b) ==
    IF check_winner(pl1[CurPlayer]).won
    THEN << [op |-> "add_score", who |-> CurPlayer],
            [op |-> "save", who |-> CurPlayer] >>
    ELSE IF is_full(b)
    THEN << [op |-> "add_score", who |-> players[1]],
            [op |-> "add_score", who |-> players[2]],
            [op |-> "save", who |-> None] >>
    ELSE << >>

\* One commit step that succeeds.
DoneStep(s, st, t) ==
    IF s.op = "add_score"
    THEN LET a == add_score(st.player[s.who], st.scores)
         IN [st EXCEPT !.player[s.who] = a.player, !.scores = a.scores]
    ELSE LET sv == Game_save(st.round_num, players, st.player, s.who,
                             st.history, t)
         IN [st EXCEPT !.winner = s.who, !.round_num = sv.round_num,
                 !.history = sv.history, !.clock = sv.clock]

\* One commit step during which sqlite raises an error that is not
\* IntegrityError (connect, execute or commit): the statements before the
\* `with` block have run (self.score += 1, line 160; self.round_num += 1,
\* line 259), nothing is written, and the exception leaves the method, since
\* add_score catches IntegrityError only and dbopen.__exit__ returns None.
FailedStep_Swallowed(s, st, t) ==
    IF s.op = "add_score"
    THEN [st EXCEPT !.player[s.who].score = @ + 1]
    ELSE [st EXCEPT !.winner = s.who, !.round_num = @ + 1, !.clock = t]
FailedStep(s, st, t) ==
    IF s.op = "add_score"
    THEN [st EXCEPT !.player[s.who].score = @ + 1, !.raised = TRUE]
    ELSE [st EXCEPT !.winner = s.who, !.round_num = @ + 1, !.clock = t,
              !.raised = TRUE]

\* The commit steps from step i on, the store failing at step `failing`
\* (0: never); Game.start has no try, so a raised step ends the sequence.
RECURSIVE RunCommit(_, _, _, _, _)
RunCommit(steps, i, failing, st, t) ==
    IF i > Len(steps) THEN st
    ELSE LET st2 == IF i = failing THEN FailedStep(steps[i], st, t)
                    ELSE DoneStep(steps[i], st, t)
         IN IF st2.raised THEN st2 ELSE RunCommit(steps, i + 1, failing, st2, t)

\* Game.start, lines 297-332, after the successful placement `placed` whose
\* commit is `steps`, when the store fails at step `failing`.
StoreFailure(placed, steps, failing, t) ==
    LET pl1 == [player EXCEPT ![CurPlayer] = placed.player]
        st == RunCommit(steps, 1, failing,
                        [player |-> pl1, scores |-> scores, history |-> history,
                         round_num |-> round_num, clock |-> clock,
                         winner |-> winner, raised |-> FALSE], t)
    IN IF st.raised
       THEN [Crashed("OperationalError") EXCEPT !.scores = st.scores,
                 !.history = st.history, !.clock = st.clock]
       ELSE [Now EXCEPT !.board = placed.board, !.player = st.player,
                 !.scores = st.scores, !.winner = st.winner,
                 !.round_num = st.round_num, !.history = st.history,
                 !.clock = st.clock, !.pc = "rematch",
                 !.status = IF st.winner = None THEN "Draw" ELSE "Won"]

\* One input at the move prompt that ends the round, the store failing at one
\* of the commit steps.
MoveStoreFails(raw) ==
    /\ pc = "move"
    /\ \E placed \in {PlacementOf(raw)} :
          /\ placed.ok
          /\ \E steps \in {CommitSteps([player EXCEPT ![CurPlayer] = placed.player],
                                       placed.board)} :
             \E failing \in 1..Len(steps), t \in Readings :
             \E r \in {StoreFailure(placed, steps, failing, t)} :
                /\ pc' = r.pc
                /\ status' = r.status
                /\ board' = r.board
                /\ player' = r.player
                /\ cur' = r.cur
                /\ winner' = r.winner
                /\ round_num' = r.round_num
                /\ scores' = r.scores
                /\ history' = r.history
                /\ clock' = r.clock
                /\ error' = r.error
                /\ completed' = r.completed
    /\ UNCHANGED <<players, calls, base, proc, dblock, waited, typed, session>>

\* The lines typed when the store is to fail: the nine cells.
FailingInputs == {<<AsciiDigits[k]>> : k \in 2..10}

NextIO ==
    \/ Next
    \/ \E raw \in FailingInputs : MoveStoreFails(raw)

SpecIO == Init /\ [][NextIO]_vars

\* How many of the two players carry the given name.
Bearers(name) == Cardinality({i \in 1..2 : player[i].name = name})

\* The scores tables a failing commit may leave: the table before the commit,
\* or after the upserts that came before the failing step, in the order of
\* the code (the mover's alone for a win; for a draw, possible only on the
\* ninth placement, players[1]'s and then players[2]'s).
CommittedBeforeFailure ==
    LET won == add_score(player[CurPlayer], scores).scores
        first == add_score(player[players[1]], scores).scores
        both == add_score(player[players[2]], first).scores
    IN {scores, won}
       \cup (IF Cardinality(DOMAIN board) = 8 THEN {first, both} ELSE {})

\* C12: when the store fails with an error other than the uniqueness
\* conflict during the commit of a round, the process leaves Game.start with
\* that error: no rematch prompt follows, no history row is written, and the
\* scores table holds only the upserts that preceded the failing step.  A
\* round whose commit completes raises nothing, appends one history row, and
\* each name keeps one row, raised once per credited player of that name,
\* whether its insert met the uniqueness conflict or not.
C12_StoreFailurePropagates ==
    [][pc = "move" =>
         /\ error' = "OperationalError" =>
               /\ pc' = "crashed"
               /\ history' = history
               /\ completed' = completed
               /\ scores' \in CommittedBeforeFailure
         /\ pc' = "rematch" =>
               /\ error' = "none"
               /\ Len(history') = Len(history) + 1
               /\ \A i \in 1..2 :
                     LET name == player[i].name
                         credited == IF status' = "Draw" THEN Bearers(name)
                                     ELSE IF player[CurPlayer].name = name THEN 1
                                     ELSE 0
                     IN /\ Cardinality(RowsOf(scores', name)) <= 1
                        /\ ScoreOf(scores', name) = ScoreOf(scores, name) + credited
    ]_vars

\* The store failed after an upsert had been committed: the process has
\* ended, a score row is on record, no history row is.
C12_Witness ==
    /\ pc = "crashed"
    /\ error = "OperationalError"
    /\ Len(scores) = 1 /\ scores[1].score = 1
    /\ history = <<>>

(***************************************************************************)
(* Properties of the round: lines, board, turns.                           *)
(***************************************************************************)
\* The winning combinations, by position in winning_combos, that a player's
\* moves include.
Held(p) == {k \in 1..Len(winning_combos) : ComboHeld(winning_combos[k], p)}

\* C13 as claimed: no player's moves ever include two distinct winning
\* combinations at the same time.
C13_NeverTwoCombos == \A i \in 1..2 : Cardinality(Held(player[i])) <= 1

\* C13, amended: a player's moves include two distinct winning combinations
\* only when that player has just won the round with a placement on the cell
\* the two share, never more than two; check_winner then returns the one
\* that comes first in winning_combos, so its iteration order decides the
\* combination returned, and nothing else.
C13_TwoCombosOnlyByTheWinningPlacement ==
    \A i \in 1..2 :
        LET held == Held(player[i])
        IN /\ Cardinality(held) <= 2
           /\ Cardinality(held) = 2 =>
                 /\ status = "Won" /\ winner = i /\ pc # "move"
                 /\ \E c \in 1..9 :
                       \A k \in held : c \in Range(winning_combos[k])
                 /\ check_winner(player[i]).won
                 /\ \A k \in held :
                       \E j \in 1..k :
                          check_winner(player[i]).combo = winning_combos[j]

\* The ninth placement has completed the first row and the first column at
\* once; check_winner returns the row.
C13_Witness ==
    /\ status = "Won"
    /\ Held(player[winner]) = {1, 4}
    /\ check_winner(player[winner]).combo = <<1, 2, 3>>

\* A step of the running round: one line typed at the move prompt, the
\* process not ending with it.
RoundStep == pc = "move" /\ pc' # "crashed"

\* C14: within a round the board only grows: a line typed at the move prompt,
\* whatever it is, leaves every occupied cell occupied with the same marker
\* and adds at most one cell; the keys stay integers of 1..9, at most nine of
\* them, and the values markers.
C14_BoardOnlyGrows ==
    [][RoundStep =>
         /\ DOMAIN board \subseteq DOMAIN board'
         /\ \A c \in DOMAIN board : board'[c] = board[c]
         /\ Cardinality(DOMAIN board' \ DOMAIN board) <= 1
         /\ DOMAIN board' \subseteq 1..9
         /\ Cardinality(DOMAIN board') <= 9
         /\ \A c \in DOMAIN board' : board'[c] \in {"X", "O"}
    ]_vars

\* A round still awaiting a move with eight cells taken, four by each marker.
C14_Witness ==
    /\ pc = "move"
    /\ Cardinality({c \in DOMAIN board : board[c] = "X"}) = 4
    /\ Cardinality({c \in DOMAIN board : board[c] = "O"}) = 4

\* A list of cells in strictly ascending order.
Ascending(moves) == \A j, k \in 1..Len(moves) : j < k => moves[j] < moves[k]

\* C15: the occupied cells are the disjoint union of the two players' moves,
\* each cell holds the marker of the player whose moves contain it, and each
\* moves list is ascending without duplicates; at a move prompt, a successful
\* Board.add_move of the current player adds the cell, with that player's
\* marker, to the board and to that player's moves, and changes nothing else.
C15_BoardMatchesMoves ==
    /\ DOMAIN board = Range(player[1].moves) \cup Range(player[2].moves)
    /\ Range(player[1].moves) \cap Range(player[2].moves) = {}
    /\ \A i \in 1..2 :
          /\ Ascending(player[i].moves)
          /\ \A c \in Range(player[i].moves) : board[c] = player[i].marker
    /\ pc = "move" =>
          \A move \in 0..10 :
             \A r \in {Board_add_move(board, move, player[CurPlayer])} :
                IF move \in 1..9 \ DOMAIN board
                THEN /\ r.ok
                     /\ DOMAIN r.board = DOMAIN board \cup {move}
                     /\ r.board[move] = player[CurPlayer].marker
                     /\ \A c \in DOMAIN board : r.board[c] = board[c]
                     /\ Range(r.player.moves)
                           = Range(player[CurPlayer].moves) \cup {move}
                     /\ Ascending(r.player.moves)
                     /\ r.player = [player[CurPlayer] EXCEPT !.moves = r.player.moves]
                ELSE move \in DOMAIN board =>
                        ~r.ok /\ r.board = board /\ r.player = player[CurPlayer]

\* Eight placements made out of ascending order of cells: X on 2, 3, 4, 7 and
\* O on 5, 6, 8, 9.
C15_Witness ==
    /\ pc = "move"
    /\ player[players[1]].moves = <<2, 3, 4, 7>>
    /\ player[players[2]].moves = <<5, 6, 8, 9>>
    /\ board[7] = "X" /\ board[9] = "O"

\* C16: the first player of the round's order holds "X" and the second "O";
\* the first player's moves are as many as the second's or one more; at a
\* move prompt it is the first player's turn exactly when they are as many,
\* and the second's exactly when the first has one more: the placements
\* alternate, starting with the "X" holder, and the turn passes with a
\* placement and with nothing else.
C16_PlacementsAlternate ==
    LET n1 == Len(player[players[1]].moves)
        n2 == Len(player[players[2]].moves)
    IN /\ n1 = n2 \/ n1 = n2 + 1
       /\ pc \in {"move", "rematch"} =>
             /\ player[players[1]].marker = "X"
             /\ player[players[2]].marker = "O"
       /\ pc = "move" => (cur = 1 <=> n1 = n2) /\ (cur = 2 <=> n1 = n2 + 1)

\* In the second round of a session, after the swap, the new first player has
\* placed three marks and the second two.
C16_Witness ==
    /\ pc = "move"
    /\ players = <<2, 1>>
    /\ Len(player[2].moves) = 3 /\ Len(player[1].moves) = 2
    /\ cur = 2

\* C18: a ninth placement that fills the board and completes a line for the
\* player who placed it ends the round as Won, not Draw: that player is the
\* winner, that player's score alone goes up, by one, and the one history
\* row appended carries that player's name as winner, not NULL.
C18_FullBoardWinIsWon ==
    [][(Placement /\ Cardinality(DOMAIN board') = 9
          /\ HoldsCombo(player'[CurPlayer])) =>
         LET cp == CurPlayer
             op == players[3 - cur]
         IN /\ status' = "Won" /\ pc' = "rematch"
            /\ winner' = cp
            /\ player'[cp].score = player[cp].score + 1
            /\ player'[op].score = player[op].score
            /\ ScoreOf(scores', player[cp].name)
                  = ScoreOf(scores, player[cp].name) + 1
            /\ player[op].name # player[cp].name =>
                  ScoreOf(scores', player[op].name) = ScoreOf(scores, player[op].name)
            /\ Len(history') = Len(history) + 1
            /\ SubSeq(history', 1, Len(history)) = history
            /\ history'[Len(history')].winner = player[cp].name
            /\ history'[Len(history')].winner # Null
    ]_vars

\* A round won on a full board.
C18_Witness ==
    /\ pc = "rematch"
    /\ status = "Won"
    /\ Cardinality(DOMAIN board) = 9
    /\ HoldsCombo(player[winner])
    /\ history[Len(history)].winner = player[winner].name

\* C19: while a move is awaited neither player's moves include a winning
\* combination; in every state at most one player's do, and that player is
\* the one the round was won by: looking only at the player who just placed
\* a mark misses no win and credits no wrong player.
C19_NoLineWhileAwaitingMove ==
    /\ pc = "move" => \A i \in 1..2 : ~HoldsCombo(player[i])
    /\ ~(HoldsCombo(player[1]) /\ HoldsCombo(player[2]))
    /\ \A i \in 1..2 : HoldsCombo(player[i]) => status = "Won" /\ winner = i

\* The second player of the round's order has won on a diagonal.
C19_Witness ==
    /\ pc = "rematch"
    /\ winner = players[2]
    /\ ComboHeld(<<3, 5, 7>>, player[players[2]])
    /\ ~HoldsCombo(player[players[1]])

\* What C20 says of one state: the scores are the observer's credits, they
\* add up to the rounds completed plus the draws, and round_num is one more
\* than the rounds completed.
SessionTallies ==
    /\ \A i \in 1..2 : player[i].score = session.credit[i]
    /\ player[1].score + player[2].score = session.rounds + session.draws
    /\ round_num = 1 + session.rounds

\* C20: through a session and its rematches, each Player's score equals the
\* number of the session's rounds that player won or drew, the two scores add
\* up to the rounds completed plus the rounds drawn, round_num is one more
\* than the rounds completed, and no step of the session lowers a score.
C20_SessionScoresCountRounds ==
    [][pc' # "crashed" =>
         /\ SessionTallies'
         /\ ~(pc = "menu" /\ pc' = "move") =>
               \A i \in 1..2 : player'[i].score >= player[i].score
    ]_vars

\* Two rounds of a session are over, a draw and a win.
C20_Witness ==
    /\ pc = "rematch"
    /\ round_num = 3
    /\ session.draws = 1
    /\ {player[1].score, player[2].score} = {1, 2}

(***************************************************************************)
(* The interactive program with players who keep typing: SpecFair.        *)
(***************************************************************************)
\* Game.start, line 281: a line is eventually typed at every move prompt,
\* and the lines that leave the prompt where it stands (rejected input) do
\* not go on for ever.
Fairness == WF_vars(\E raw \in MoveInputs : Move(raw))

SpecFair == Spec /\ Fairness

\* At most nine cells are ever taken, and with the ninth the round is
\* over, Won or Draw, no move prompt following.
NinthPlacementEndsRound ==
    /\ Cardinality(DOMAIN board) <= 9
    /\ Cardinality(DOMAIN board) = 9 => pc # "move" /\ status \in {"Won", "Draw"}

\* C17: a round takes at most nine placements and is over, Won or Draw, with
\* the ninth; and every round that awaits a move eventually is Won, Draw or
\* Aborted, given players who eventually type a valid move or the sentinel.
C17_RoundsTerminate ==
    /\ []NinthPlacementEndsRound
    /\ (pc = "move") ~> (pc # "move" /\ status \in {"Won", "Draw", "Aborted"})

=============================================================================
